---- MODULE Spec2Model ----
(***************************************************************************)
(* Payment lifecycle of az-iranian-bank-gateways: the PEC and Sepehr       *)
(* adapters (banks/pec.py, banks/sepehr.py) and the callback view          *)
(* (views/banks.py).  The shared base class BaseBank and the Bank model    *)
(* are not among the sources; their parts are modelled from the design     *)
(* document and are marked "base" below.                                   *)
(***************************************************************************)
EXTENDS Integers, Sequences, FiniteSets, TLC

VARIABLES
    bank_records,      \* the Bank table: a sequence of transaction records
    settlement_calls,  \* per record, settlement calls the bank has received
    last_pay,          \* if the last call was pay(): its answer and outcome
    last_callback,     \* if the last call was callback_view(): what it did
    deliveries,        \* callback requests in flight, stepped one call at a time
    probe              \* one call of a function of the code: its input, its result

vars ==
    <<bank_records, settlement_calls, last_pay, last_callback, deliveries,
      probe>>

None == "none"
NoProbe == [call |-> None]

\* ------------------------------------------------------------------ bounds
MaxRecords == 1
MaxCalls == 3

\* ------------------------------------------------------------ value spaces
PEC == "PEC"
SEPEHR == "SEPEHR"
BankTypes == {PEC, SEPEHR}
Identifiers == {"1"}
TrackingCodes == {"t1", "t2"}
Tokens == {"TOKEN123", "OTHER"}
\* the token the bank issues on a successful pay
IssuedTokens == {"TOKEN123"}
Messages == {"msg"}
\* amounts of a payment, in the adapter's currency
Amounts == {1000, 2500}
OneAmount == {1000}
IRR == "IRR"

INIT == "INIT"
REDIRECT_TO_BANK == "REDIRECT_TO_BANK"
CALLBACK_RECEIVED == "CALLBACK_RECEIVED"
COMPLETE == "COMPLETE"
CANCEL_BY_USER == "CANCEL_BY_USER"
ERROR == "ERROR"
Terminal == {COMPLETE, CANCEL_BY_USER, ERROR}

BankGatewayRejectPayment == "BankGatewayRejectPayment"
BankGatewayConnectionError == "BankGatewayConnectionError"
CallbackUnresolved == "CallbackUnresolved"
AttributeError == "AttributeError"
\* the exceptions callback_view catches (subclasses of AZBankGatewaysException)
AZBankGatewaysException ==
    {BankGatewayRejectPayment, BankGatewayConnectionError, CallbackUnresolved}

\* A status text is the sequence of its parts; <<>> is "no text".
NoText == <<>>
Contains(text, part) == \E k \in DOMAIN text : text[k] = part

\* ------------------------------------------------------- the bank's answers
\* SalePaymentRequest (SOAP): a result object, or the call raises.
PECPayAnswers ==
    [kind : {"soap"}, Status : {0}, Message : {None}, Token : IssuedTokens]
    \cup [kind : {"soap"}, Status : {-1}, Message : Messages, Token : {None}]
    \cup [kind : {"raises"}, Status : {0}, Message : {None}, Token : {None}]

\* ConfirmPayment (SOAP).
PECVerifyAnswers ==
    [kind : {"soap"}, Status : {0}, Message : {None}]
    \cup [kind : {"soap"}, Status : {-138, -1}, Message : Messages]
    \cup [kind : {"raises"}, Status : {0}, Message : {None}]

\* GetToken (HTTP + JSON): a JSON body, a body that is not JSON, or no answer.
SepehrPayAnswers ==
    [kind : {"json"}, Status : {0}, Message : {None},
     Accesstoken : IssuedTokens]
    \cup [kind : {"json"}, Status : {-1}, Message : Messages \cup {None},
          Accesstoken : {None}]
    \cup [kind : {"nonjson", "timeout", "connection"}, Status : {0},
          Message : {None}, Accesstoken : {None}]

\* Advice (HTTP + JSON).
SepehrVerifyAnswers ==
    [kind : {"json"}, Status : {"OK", "NOK"}, Message : Messages \cup {None}]
    \cup [kind : {"nonjson", "timeout", "connection"}, Status : {"NOK"},
          Message : {None}]

\* An answer that is no answer of the bank's application: the call raised, timed
\* out, could not connect, or the body could not be decoded.
TransportFailure(answer) ==
    answer.kind \in {"raises", "timeout", "connection", "nonjson"}

\* ------------------------------------------------------------- the records
\* base: the Bank model.  A record as created for a payment attempt.
NewRecord(bank_type, identifier, tracking_code, amount) ==
    [bank_type |-> bank_type,
     amount |-> amount,
     currency |-> IRR,
     bank_choose_identifier |-> identifier,
     tracking_code |-> tracking_code,
     reference_number |-> None,
     status |-> INIT,
     transaction_status_text |-> NoText,
     extra_information |-> None]

RecIds(recs) == DOMAIN recs

\* Bank.objects.filter(tracking_code=..., bank_type=...): the matching records.
Matching(recs, bank_type, tracking_code) ==
    {i \in RecIds(recs) :
        /\ recs[i].bank_type = bank_type
        /\ recs[i].tracking_code = tracking_code}

\* ------------------------------------------------------------------- pay
\* base: BaseBank.prepare_pay.  The tracking codes the record may get: the
\* caller's own if it is not in use for this bank type, else a generated one
\* that is checked against the existing records of this bank type.
Base_prepare_pay(bank_type, supplied, recs) ==
    IF supplied # None
    THEN {c \in {supplied} : Matching(recs, bank_type, c) = {}}
    ELSE {c \in TrackingCodes : Matching(recs, bank_type, c) = {}}

\* A prepare_pay that generates a code without looking at the records.
Unchecked_prepare_pay(supplied, recs) ==
    IF supplied # None THEN {supplied} ELSE TrackingCodes

\* PEC.prepare_pay: after the base class's, a code is generated (from a uuid,
\* unchecked) only if there still is none.
PEC_prepare_pay(supplied, recs) ==
    LET codes == Base_prepare_pay(PEC, supplied, recs)
    IN  {IF c = None THEN g ELSE c : c \in codes, g \in TrackingCodes}

\* Sepehr.prepare_pay: the base class's.
Sepehr_prepare_pay(supplied, recs) == Base_prepare_pay(SEPEHR, supplied, recs)

\* PEC.pay.  The rejection is raised inside the try block, so the handler of
\* Exception below it catches it and raises the connection error instead.
PEC_pay(answer, text) ==
    IF answer.kind = "raises"
    THEN [raised |-> BankGatewayConnectionError, reference_number |-> None,
          text |-> text]
    ELSE IF answer.Status # 0
    THEN [raised |-> BankGatewayConnectionError, reference_number |-> None,
          text |-> <<"Error: ", answer.Message>>]
    ELSE [raised |-> None, reference_number |-> answer.Token, text |-> text]

\* Sepehr._send_data: the decoded body, or the connection error.  A body that
\* is not JSON is replaced by the empty dictionary (json = FALSE: no key is
\* present); a Message of None is an absent key.
Sepehr_send_data(answer, text) ==
    IF answer.kind \in {"timeout", "connection"}
    THEN [raised |-> BankGatewayConnectionError, json |-> FALSE,
          Status |-> answer.Status, Message |-> None, text |-> text]
    ELSE IF answer.kind = "nonjson"
    THEN [raised |-> None, json |-> FALSE, Status |-> answer.Status,
          Message |-> None, text |-> text]
    ELSE [raised |-> None, json |-> TRUE, Status |-> answer.Status,
          Message |-> answer.Message,
          text |-> IF answer.Message # None THEN <<answer.Message>> ELSE text]

\* Sepehr.pay.
Sepehr_pay(answer, text) ==
    LET response_json == Sepehr_send_data(answer, text)
    IN  IF response_json.raised # None
        THEN [raised |-> response_json.raised, reference_number |-> None,
              text |-> response_json.text]
        ELSE IF response_json.json /\ response_json.Status = 0
        THEN [raised |-> None, reference_number |-> answer.Accesstoken,
              text |-> response_json.text]
        ELSE [raised |-> BankGatewayRejectPayment, reference_number |-> None,
              text |-> IF response_json.Message # None
                       THEN <<response_json.Message>>
                       ELSE <<"Unknown error">>]

\* base: what the payment attempt leaves in the record.  Success stores the
\* token and moves to REDIRECT_TO_BANK; a rejection stores the text and moves
\* to ERROR; a connection error leaves the record in INIT.
Base_after_pay(rec, result) ==
    IF result.raised = None
    THEN [rec EXCEPT !.reference_number = result.reference_number,
                     !.status = REDIRECT_TO_BANK]
    ELSE IF result.raised = BankGatewayRejectPayment
    THEN [rec EXCEPT !.status = ERROR,
                     !.transaction_status_text = result.text]
    ELSE rec

NoCallback ==
    [response |-> None, fallback |-> FALSE, before |-> None,
     unmatched |-> FALSE, adapter |-> FALSE, rec |-> 0,
     preliminary |-> FALSE, called |-> FALSE, transport |-> FALSE,
     answered |-> None, raised |-> None, changed |-> FALSE, after |-> None]

NoPay ==
    [rec |-> 0, rejected |-> FALSE, transport |-> FALSE, message |-> None,
     raised |-> None, raised_text |-> NoText,
     sent |-> [type |-> None, value |-> 0],
     after |-> NewRecord(None, None, None, 0)]

\* base: BaseBank.get_gateway_amount.  The record's amount is held in the
\* adapter's declared currency, which is the currency of the gateway.
Base_get_gateway_amount(rec) == rec.amount

\* PEC.get_pay_data: the Amount and OrderId of the request.
PEC_get_pay_data(gateway_amount, tracking_code) ==
    [Amount |-> [type |-> "int", value |-> gateway_amount],
     OrderId |-> tracking_code]

\* Sepehr.get_pay_data: the Amount (the decimal string of ten times the
\* gateway amount) and invoiceID of the request.
Sepehr_get_pay_data(gateway_amount, tracking_code) ==
    [Amount |-> [type |-> "str", value |-> gateway_amount * 10],
     invoiceID |-> tracking_code]

\* The start of a payment attempt: the record is created in INIT with the
\* tracking code prepare_pay gave it.
CreateRecord(bank_type, identifier, code, amount) ==
    /\ bank_records' =
          Append(bank_records, NewRecord(bank_type, identifier, code, amount))
    /\ settlement_calls' = Append(settlement_calls, 0)
    /\ last_pay' = NoPay
    /\ last_callback' = NoCallback
    /\ UNCHANGED deliveries

\* prepare_pay of the adapter of bank_type.
prepare_pay(bank_type, supplied, recs) ==
    IF bank_type = PEC THEN PEC_prepare_pay(supplied, recs)
    ELSE Sepehr_prepare_pay(supplied, recs)

StartPayment(bank_type, identifier, supplied, amount) ==
    /\ Len(bank_records) < MaxRecords
    /\ \E code \in prepare_pay(bank_type, supplied, bank_records) :
          CreateRecord(bank_type, identifier, code, amount)
    /\ UNCHANGED probe

\* pay() of the record's adapter, answered by the bank with `answer`.
PayWith(i, answer) ==
    LET rec == bank_records[i]
        result == IF rec.bank_type = PEC
                  THEN PEC_pay(answer, rec.transaction_status_text)
                  ELSE Sepehr_pay(answer, rec.transaction_status_text)
        after == Base_after_pay(rec, result)
        data == IF rec.bank_type = PEC
                THEN PEC_get_pay_data(Base_get_gateway_amount(rec),
                                      rec.tracking_code)
                ELSE Sepehr_get_pay_data(Base_get_gateway_amount(rec),
                                         rec.tracking_code)
    IN  /\ bank_records' = [bank_records EXCEPT ![i] = after]
        /\ last_pay' =
              [rec |-> i,
               rejected |-> answer.kind \in {"soap", "json"} /\ answer.Status # 0,
               transport |-> TransportFailure(answer),
               message |-> answer.Message,
               raised |-> result.raised,
               raised_text |-> result.text,
               sent |-> data.Amount,
               after |-> after]
        /\ last_callback' = NoCallback
        /\ UNCHANGED <<settlement_calls, deliveries, probe>>

Pay(i) ==
    /\ bank_records[i].status = INIT
    /\ IF bank_records[i].bank_type = PEC
       THEN \E answer \in PECPayAnswers : PayWith(i, answer)
       ELSE \E answer \in SepehrPayAnswers : PayWith(i, answer)

\* ------------------------------------------------------ callback requests
\* A callback request: its method, the bank_type and identifier of its query
\* string, and the fields the bank sends (fmt: in which bank's vocabulary),
\* which are in the query string of a GET and in the form body of a POST.
\* code is OrderId / invoiceid, tok is Token / digitalreceipt; token tells
\* whether a Sepehr request has a "token" field.
PECRequests ==
    [fmt : {PEC}, method : {"GET", "POST"}, bank_type : {None, PEC},
     identifier : {None} \cup Identifiers, code : {None} \cup TrackingCodes,
     tok : {None} \cup Tokens, respcode : {None}, token : {FALSE}]

SepehrRequests ==
    [fmt : {SEPEHR}, method : {"GET", "POST"}, bank_type : {None, SEPEHR},
     identifier : {None} \cup Identifiers, code : {None} \cup TrackingCodes,
     tok : {None} \cup Tokens, respcode : {"0", "-1"}, token : BOOLEAN]

\* A request whose token / receipt and respcode are never read: it has no
\* tracking code, or it is a Sepehr request without bank_type or "token"
\* field or with its fields in the query string (the adapter reads the form).
FieldsUnread(r) ==
    \/ r.code = None
    \/ r.fmt = SEPEHR /\ (r.bank_type = None \/ ~r.token \/ r.method = "GET")

\* The query string carries an identifier exactly next to a bank_type.  Of the
\* requests that differ only in fields that are never read, one is kept.
Requests ==
    {r \in PECRequests \cup SepehrRequests :
        /\ r.bank_type = None <=> r.identifier = None
        /\ FieldsUnread(r) =>
              r.tok = "TOKEN123" /\ (r.fmt = SEPEHR => r.respcode = "0")
        /\ (r.fmt = SEPEHR /\ r.bank_type = None) => r.token}

BodyField(req, key) ==
    CASE key = "OrderId" /\ req.fmt = PEC -> req.code
      [] key = "Token" /\ req.fmt = PEC -> req.tok
      [] key = "invoiceid" /\ req.fmt = SEPEHR -> req.code
      [] key = "digitalreceipt" /\ req.fmt = SEPEHR -> req.tok
      [] key = "respcode" /\ req.fmt = SEPEHR -> req.respcode
      [] key = "token" /\ req.fmt = SEPEHR /\ req.token -> "present"
      [] OTHER -> None

\* request.GET.get(key): the query string.
ReqGET(req, key) ==
    CASE key = "bank_type" -> req.bank_type
      [] key = "identifier" -> req.identifier
      [] OTHER -> IF req.method = "GET" THEN BodyField(req, key) ELSE None

\* request.POST.get(key): the form body.
ReqPOST(req, key) ==
    IF req.method = "POST" THEN BodyField(req, key) ELSE None

\* ------------------------------------------------- callback_view, resolving
Http404 == "Http404"

\* A callback_view whose fallback always builds the adapter of identifier "1".
Default_callback_resolve(req, recs) ==
    LET bank_type == ReqGET(req, "bank_type")
        order_id == IF ReqPOST(req, "OrderId") # None
                    THEN ReqPOST(req, "OrderId")
                    ELSE ReqGET(req, "OrderId")
        found == Matching(recs, PEC, order_id)
    IN  IF bank_type # None
        THEN [raised |-> None, bank_type |-> bank_type,
              identifier |-> ReqGET(req, "identifier"), bank_record |-> 0]
        ELSE IF order_id = None \/ found = {}
        THEN [raised |-> Http404, bank_type |-> None, identifier |-> None,
              bank_record |-> 0]
        ELSE [raised |-> None, bank_type |-> PEC, identifier |-> "1",
              bank_record |-> CHOOSE i \in found : TRUE]

\* callback_view up to the adapter: the bank type and identifier of the query
\* string, else the PEC record whose tracking code is the request's OrderId.
callback_resolve(req, recs) ==
    LET bank_type == ReqGET(req, "bank_type")
        identifier == ReqGET(req, "identifier")
        order_id == IF ReqPOST(req, "OrderId") # None
                    THEN ReqPOST(req, "OrderId")
                    ELSE ReqGET(req, "OrderId")
        found == Matching(recs, PEC, order_id)
    IN  IF bank_type # None
        THEN [raised |-> None, bank_type |-> bank_type,
              identifier |-> identifier, bank_record |-> 0]
        ELSE IF order_id = None \/ found = {}
        THEN [raised |-> Http404, bank_type |-> None, identifier |-> None,
              bank_record |-> 0]
        ELSE LET i == CHOOSE i \in found : TRUE
             IN  [raised |-> None, bank_type |-> PEC,
                  identifier |->
                      IF recs[i].bank_choose_identifier = None
                      THEN "1" ELSE recs[i].bank_choose_identifier,
                  bank_record |-> i]

\* --------------------------------------------------------- callback parsing
\* base: BaseBank._set_bank_record.  The record of this bank type with the
\* tracking code the adapter parsed; 0 if there is none.
Base_set_bank_record(recs, bank_type, tracking_code) ==
    LET found == Matching(recs, bank_type, tracking_code)
    IN  IF found = {} THEN 0 ELSE CHOOSE i \in found : TRUE

\* A prepare_verify_from_gateway that, with the token, writes an amount to
\* the record.
Repricing_prepare_verify_from_gateway(req, recs) ==
    LET token == IF req.method = "POST"
                 THEN ReqPOST(req, "Token") ELSE ReqGET(req, "Token")
        order_id == IF req.method = "POST"
                    THEN ReqPOST(req, "OrderId") ELSE ReqGET(req, "OrderId")
        i == Base_set_bank_record(recs, PEC, order_id)
    IN  IF i = 0
        THEN [raised |-> CallbackUnresolved, recs |-> recs, rec |-> 0,
              preliminary |-> None]
        ELSE IF token # None
        THEN [raised |-> None,
              recs |-> [recs EXCEPT ![i].reference_number = token,
                                    ![i].extra_information = "callback",
                                    ![i].amount = 0],
              rec |-> i, preliminary |-> None]
        ELSE [raised |-> None, recs |-> recs, rec |-> i, preliminary |-> None]

\* PEC.prepare_verify_from_gateway.  Neither adapter reports a preliminary
\* outcome: preliminary is None whatever the request says.
PEC_prepare_verify_from_gateway(req, recs) ==
    LET token == IF req.method = "POST"
                 THEN ReqPOST(req, "Token") ELSE ReqGET(req, "Token")
        order_id == IF req.method = "POST"
                    THEN ReqPOST(req, "OrderId") ELSE ReqGET(req, "OrderId")
        i == Base_set_bank_record(recs, PEC, order_id)
    IN  IF i = 0
        THEN [raised |-> CallbackUnresolved, recs |-> recs, rec |-> 0,
              preliminary |-> None]
        ELSE IF token # None
        THEN [raised |-> None,
              recs |-> [recs EXCEPT ![i].reference_number = token,
                                    ![i].extra_information = "callback"],
              rec |-> i, preliminary |-> None]
        ELSE [raised |-> None, recs |-> recs, rec |-> i, preliminary |-> None]

\* A prepare_verify_from_gateway that marks the record as returned from the
\* bank itself when it stores the receipt.
Marking_prepare_verify_from_gateway(req, recs) ==
    LET tracking_code == ReqPOST(req, "invoiceid")
        digital_receipt == ReqPOST(req, "digitalreceipt")
        i == Base_set_bank_record(recs, SEPEHR, tracking_code)
    IN  IF ReqGET(req, "token") = None /\ ReqPOST(req, "token") = None
        THEN [raised |-> AttributeError, recs |-> recs, rec |-> 0,
              preliminary |-> None]
        ELSE IF i = 0
        THEN [raised |-> CallbackUnresolved, recs |-> recs, rec |-> 0,
              preliminary |-> None]
        ELSE IF ReqPOST(req, "respcode") = "0" /\ digital_receipt # None
        THEN [raised |-> None,
              recs |-> [recs EXCEPT ![i].reference_number = digital_receipt,
                                    ![i].extra_information = "callback",
                                    ![i].status = CALLBACK_RECEIVED],
              rec |-> i, preliminary |-> None]
        ELSE [raised |-> None, recs |-> recs, rec |-> i, preliminary |-> None]

\* Sepehr.prepare_verify_from_gateway.  The search for "token" goes through
\* request.GET, request.POST and then request.data, which a Django request
\* does not have; the fields themselves are read from request.POST only.
Sepehr_prepare_verify_from_gateway(req, recs) ==
    LET tracking_code == ReqPOST(req, "invoiceid")
        digital_receipt == ReqPOST(req, "digitalreceipt")
        respcode == IF ReqPOST(req, "respcode") = None
                    THEN "-1" ELSE ReqPOST(req, "respcode")
        i == Base_set_bank_record(recs, SEPEHR, tracking_code)
    IN  IF ReqGET(req, "token") = None /\ ReqPOST(req, "token") = None
        THEN [raised |-> AttributeError, recs |-> recs, rec |-> 0,
              preliminary |-> None]
        ELSE IF i = 0
        THEN [raised |-> CallbackUnresolved, recs |-> recs, rec |-> 0,
              preliminary |-> None]
        ELSE IF respcode = "0" /\ digital_receipt # None
        THEN [raised |-> None,
              recs |-> [recs EXCEPT ![i].reference_number = digital_receipt,
                                    ![i].extra_information = "callback"],
              rec |-> i, preliminary |-> None]
        ELSE [raised |-> None, recs |-> recs, rec |-> i, preliminary |-> None]

prepare_verify_from_gateway(bank_type, req, recs) ==
    IF bank_type = PEC
    THEN PEC_prepare_verify_from_gateway(req, recs)
    ELSE Sepehr_prepare_verify_from_gateway(req, recs)

\* ------------------------------------------------------------------ verify
\* PEC.verify: the outcome of ConfirmPayment.
PEC_verify(answer, text) ==
    IF answer.kind = "raises"
    THEN [raised |-> BankGatewayConnectionError, status |-> ERROR,
          text |-> text]
    ELSE IF answer.Status = 0
    THEN [raised |-> None, status |-> COMPLETE, text |-> text]
    ELSE IF answer.Status = -138
    THEN [raised |-> None, status |-> CANCEL_BY_USER,
          text |-> <<"Error: ", answer.Message>>]
    ELSE [raised |-> None, status |-> ERROR,
          text |-> <<"Error: ", answer.Message>>]

\* A verify that takes every answer but an explicit refusal for a success.
Lenient_verify(answer, text) ==
    LET response_json == Sepehr_send_data(answer, text)
    IN  IF response_json.raised # None
        THEN [raised |-> response_json.raised, status |-> None,
              text |-> response_json.text]
        ELSE IF response_json.json /\ response_json.Status = "NOK"
        THEN [raised |-> None, status |-> CANCEL_BY_USER,
              text |-> response_json.text]
        ELSE [raised |-> None, status |-> COMPLETE,
              text |-> response_json.text]

\* Sepehr.verify: the outcome of Advice.  A connection error leaves the
\* status to the caller (status None: not set by the adapter).
Sepehr_verify(answer, text) ==
    LET response_json == Sepehr_send_data(answer, text)
    IN  IF response_json.raised # None
        THEN [raised |-> response_json.raised, status |-> None,
              text |-> response_json.text]
        ELSE IF response_json.json /\ response_json.Status = "OK"
        THEN [raised |-> None, status |-> COMPLETE,
              text |-> response_json.text]
        ELSE [raised |-> None, status |-> CANCEL_BY_USER,
              text |-> response_json.text]

verify(bank_type, answer, text) ==
    IF bank_type = PEC THEN PEC_verify(answer, text)
    ELSE Sepehr_verify(answer, text)

VerifyAnswers(bank_type) ==
    IF bank_type = PEC THEN PECVerifyAnswers ELSE SepehrVerifyAnswers

\* base: BaseBank.verify_from_gateway after parsing, as one conditional
\* update: a record in REDIRECT_TO_BANK becomes CALLBACK_RECEIVED and is
\* verified (or, on a preliminary outcome, is closed with it at once); a
\* record in any other status is left as it is and nothing is sent.
Base_callback_received(recs, i, preliminary) ==
    IF recs[i].status # REDIRECT_TO_BANK
    THEN [recs |-> recs, verify |-> FALSE]
    ELSE IF preliminary # None
    THEN [recs |-> [recs EXCEPT ![i].status = preliminary], verify |-> FALSE]
    ELSE [recs |-> [recs EXCEPT ![i].status = CALLBACK_RECEIVED],
          verify |-> TRUE]

\* base: what verify leaves in the record: the status the adapter set, ERROR
\* when it failed without setting one, and the adapter's status text.
Base_after_verify(rec, result) ==
    [rec EXCEPT !.status = IF result.status # None THEN result.status
                           ELSE ERROR,
                !.transaction_status_text = result.text]

\* the bank counts one more settlement call for record i
BankCalled(calls, i) ==
    [calls EXCEPT ![i] = IF @ < MaxCalls THEN @ + 1 ELSE @]

\* A verify_from_gateway that goes on to verify without the status check.
Unchecked_verify_from_gateway(recs, i, preliminary) ==
    [recs |-> [recs EXCEPT ![i].status = CALLBACK_RECEIVED], verify |-> TRUE]

\* A verify_from_gateway that reads the status and writes it in two steps:
\* it goes on whenever the record it read is not closed yet.
Unserialized_verify_from_gateway(recs, i, preliminary) ==
    IF recs[i].status \in {REDIRECT_TO_BANK, CALLBACK_RECEIVED}
    THEN [recs |-> [recs EXCEPT ![i].status = CALLBACK_RECEIVED],
          verify |-> TRUE]
    ELSE [recs |-> recs, verify |-> FALSE]

\* PEC.verify_from_gateway: the base class's.
PEC_verify_from_gateway(recs, i, preliminary) ==
    Base_callback_received(recs, i, preliminary)

\* Sepehr.verify_from_gateway: the base class's.
Sepehr_verify_from_gateway(recs, i, preliminary) ==
    Base_callback_received(recs, i, preliminary)

verify_from_gateway(bank_type, recs, i, preliminary) ==
    IF bank_type = PEC THEN PEC_verify_from_gateway(recs, i, preliminary)
    ELSE Sepehr_verify_from_gateway(recs, i, preliminary)

\* ------------------------------------------- callback_view, as one request
\* The tracking code a callback carries for the adapter of bank_type.
CallbackCode(req, bank_type) ==
    IF req.fmt = bank_type THEN req.code ELSE None

\* The callback matches no record on the path callback_view takes for it.
Unmatched(req, recs) ==
    IF req.bank_type = None
    THEN Matching(recs, PEC, CallbackCode(req, PEC)) = {}
    ELSE Matching(recs, req.bank_type, CallbackCode(req, req.bank_type)) = {}

\* The callback itself tells that the payment did not succeed: a Sepehr
\* respcode other than "0", or no digital receipt / token.
PreliminaryNonSuccess(req) ==
    \/ req.tok = None
    \/ req.fmt = SEPEHR /\ req.respcode # "0"

\* What the bank answered to a settlement call: no answer of its application
\* ("transport"), success (PEC Status 0, Sepehr Status "OK"), PEC's cancel
\* code -138, or another status.
Answered(answer) ==
    IF TransportFailure(answer) THEN "transport"
    ELSE IF answer.kind = "soap"
    THEN (IF answer.Status = 0 THEN "success"
          ELSE IF answer.Status = -138 THEN "cancel" ELSE "other")
    ELSE (IF answer.Status = "OK" THEN "success" ELSE "other")

\* What one run of callback_view saw and did.
CallbackSeen(req, resolved, rec, called, answered, raised, recs_after) ==
    [response |-> IF resolved.raised # None THEN Http404
                  ELSE IF raised = None \/ raised \in AZBankGatewaysException
                  THEN "redirect" ELSE raised,
     fallback |-> resolved.bank_record # 0,
     before |-> IF resolved.bank_record # 0
                THEN bank_records[resolved.bank_record].status
                ELSE IF rec # 0 THEN bank_records[rec].status ELSE None,
     unmatched |-> Unmatched(req, bank_records),
     adapter |-> resolved.raised = None,
     rec |-> rec,
     preliminary |-> rec # 0 /\ PreliminaryNonSuccess(req),
     called |-> called,
     transport |-> answered = "transport",
     answered |-> answered,
     raised |-> raised,
     changed |-> recs_after # bank_records,
     after |-> IF rec # 0 THEN recs_after[rec].status ELSE None]

\* callback_view, run from the request to the response without another
\* request in between: resolve, build the adapter, verify_from_gateway with
\* the gateway exceptions caught, redirect_client_callback.
CallbackView(req) ==
    LET resolved == callback_resolve(req, bank_records)
        parsed == prepare_verify_from_gateway(resolved.bank_type, req,
                                              bank_records)
        checked == verify_from_gateway(resolved.bank_type, parsed.recs,
                                       parsed.rec, parsed.preliminary)
    IN  IF resolved.raised # None
        THEN /\ last_callback' = CallbackSeen(req, resolved, 0, FALSE, None,
                                              None, bank_records)
             /\ last_pay' = NoPay
             /\ UNCHANGED <<bank_records, settlement_calls, deliveries, probe>>
        ELSE IF parsed.raised # None
        THEN /\ last_callback' = CallbackSeen(req, resolved, 0, FALSE, None,
                                              parsed.raised, bank_records)
             /\ last_pay' = NoPay
             /\ UNCHANGED <<bank_records, settlement_calls, deliveries, probe>>
        ELSE IF ~checked.verify
        THEN /\ bank_records' = checked.recs
             /\ last_callback' = CallbackSeen(req, resolved, parsed.rec, FALSE,
                                              None, None, checked.recs)
             /\ last_pay' = NoPay
             /\ UNCHANGED <<settlement_calls, deliveries, probe>>
        ELSE \E answer \in VerifyAnswers(resolved.bank_type) :
                LET i == parsed.rec
                    result == verify(resolved.bank_type, answer,
                                  checked.recs[i].transaction_status_text)
                    recs_after ==
                        [checked.recs EXCEPT
                            ![i] = Base_after_verify(checked.recs[i], result)]
                IN  /\ bank_records' = recs_after
                    /\ settlement_calls' = BankCalled(settlement_calls, i)
                    /\ last_callback' =
                          CallbackSeen(req, resolved, i, TRUE,
                                       Answered(answer), result.raised,
                                       recs_after)
                    /\ last_pay' = NoPay
                    /\ UNCHANGED <<deliveries, probe>>

\* ---------------------------- callback_view, two requests at the same time
Slots == {"d1", "d2"}

NoRequest ==
    [fmt |-> None, method |-> None, bank_type |-> None, identifier |-> None,
     code |-> None, tok |-> None, respcode |-> None, token |-> FALSE]

Idle == [pc |-> "idle", req |-> NoRequest, bank_type |-> None, rec |-> 0,
         preliminary |-> None]

Done(rec) == [pc |-> "done", req |-> NoRequest, bank_type |-> None,
              rec |-> rec, preliminary |-> None]

\* The callbacks a bank sends for a payment: PEC's without query parameters,
\* Sepehr's to the return URL with its bank_type, both as a form POST.
BankCallbacks ==
    {r \in Requests :
        /\ r.method = "POST"
        /\ r.code # None
        /\ r.tok = "TOKEN123"
        /\ r.fmt = PEC => r.bank_type = None
        /\ r.fmt = SEPEHR => r.bank_type = SEPEHR /\ r.token /\ r.respcode = "0"}

\* callback_view up to factory.create.
DeliverResolve(d, req) ==
    LET resolved == callback_resolve(req, bank_records)
    IN  /\ deliveries[d].pc = "idle"
        /\ deliveries' =
              [deliveries EXCEPT ![d] =
                  IF resolved.raised # None THEN Done(0)
                  ELSE [pc |-> "resolved", req |-> req,
                        bank_type |-> resolved.bank_type, rec |-> 0,
                        preliminary |-> None]]
        /\ UNCHANGED <<bank_records, settlement_calls, last_pay, last_callback,
                       probe>>

\* verify_from_gateway: the adapter's prepare_verify_from_gateway.
DeliverParse(d) ==
    LET dl == deliveries[d]
        parsed == prepare_verify_from_gateway(dl.bank_type, dl.req, bank_records)
    IN  /\ dl.pc = "resolved"
        /\ bank_records' = parsed.recs
        /\ deliveries' =
              [deliveries EXCEPT ![d] =
                  IF parsed.raised # None THEN Done(0)
                  ELSE [pc |-> "parsed", req |-> NoRequest,
                        bank_type |-> dl.bank_type, rec |-> parsed.rec,
                        preliminary |-> parsed.preliminary]]
        /\ UNCHANGED <<settlement_calls, last_pay, last_callback, probe>>

\* verify_from_gateway: the status check and update.
DeliverCheck(d) ==
    LET dl == deliveries[d]
        checked == verify_from_gateway(dl.bank_type, bank_records, dl.rec,
                                       dl.preliminary)
    IN  /\ dl.pc = "parsed"
        /\ bank_records' = checked.recs
        /\ deliveries' =
              [deliveries EXCEPT ![d] =
                  IF checked.verify THEN [dl EXCEPT !.pc = "verifying"]
                  ELSE Done(dl.rec)]
        /\ UNCHANGED <<settlement_calls, last_pay, last_callback, probe>>

\* verify_from_gateway: the adapter's verify, the bank answering `answer`.
DeliverVerify(d) ==
    LET dl == deliveries[d]
        i == dl.rec
    IN  /\ dl.pc = "verifying"
        /\ \E answer \in VerifyAnswers(dl.bank_type) :
              LET result == verify(dl.bank_type, answer,
                                   bank_records[i].transaction_status_text)
              IN  bank_records' =
                      [bank_records EXCEPT
                          ![i] = Base_after_verify(bank_records[i], result)]
        /\ settlement_calls' = BankCalled(settlement_calls, i)
        /\ deliveries' = [deliveries EXCEPT ![d] = Done(i)]
        /\ UNCHANGED <<last_pay, last_callback, probe>>

\* ------------------------------------------------------- the specifications
Init ==
    /\ bank_records = <<>>
    /\ settlement_calls = <<>>
    /\ last_pay = NoPay
    /\ last_callback = NoCallback
    /\ deliveries = [d \in Slots |-> Idle]
    /\ probe = NoProbe

PaymentStep(amounts) ==
    \/ \E bank_type \in BankTypes, identifier \in Identifiers,
          supplied \in {None} \cup TrackingCodes, amount \in amounts :
            StartPayment(bank_type, identifier, supplied, amount)
    \/ \E i \in RecIds(bank_records) : Pay(i)

\* Callbacks handled one after the other.
Next ==
    \/ PaymentStep(OneAmount)
    \/ \E req \in Requests : CallbackView(req)

Spec == Init /\ [][Next]_vars

\* Callbacks of the bank handled at the same time, step by step.
NextConcurrent ==
    \/ PaymentStep(Amounts)
    \/ \E d \in Slots, req \in BankCallbacks : DeliverResolve(d, req)
    \/ \E d \in Slots : DeliverParse(d)
    \/ \E d \in Slots : DeliverCheck(d)
    \/ \E d \in Slots : DeliverVerify(d)

SpecConcurrent == Init /\ [][NextConcurrent]_vars

\* --------------------------------------------- single calls, one at a time
MaxPrepared == 2

\* bank_choose_identifier: not given, or one of two configurations of a bank
RoutedIdentifiers == {None, "1", "2"}

\* prepare_pay for a new payment: the supplied tracking code and the code the
\* record gets.
PreparePay(bank_type, identifier, supplied, amount) ==
    /\ Len(bank_records) < MaxPrepared
    /\ \E code \in prepare_pay(bank_type, supplied, bank_records) :
          /\ CreateRecord(bank_type, identifier, code, amount)
          /\ probe' = [call |-> "prepare_pay", supplied |-> supplied,
                       code |-> code]

\* The fields a bank sends back, as a form POST to the return URL of its
\* adapter.
ParseRequests ==
    [fmt : {PEC}, method : {"POST"}, bank_type : {PEC}, identifier : {"1"},
     code : {None} \cup TrackingCodes, tok : {None, "TOKEN123"},
     respcode : {None}, token : {FALSE}]
    \cup
    [fmt : {SEPEHR}, method : {"POST"}, bank_type : {SEPEHR},
     identifier : {"1"}, code : {None} \cup TrackingCodes,
     tok : {None, "TOKEN123"}, respcode : {"0", "-1"}, token : BOOLEAN]

\* The same fields as a form POST and in the query string of a GET.
AsPOST(req) == [req EXCEPT !.method = "POST"]
AsGET(req) == [req EXCEPT !.method = "GET"]

\* prepare_verify_from_gateway of the request's adapter, on the same fields
\* sent the one way and the other: the record found by the tracking code,
\* the token / receipt stored, the preliminary outcome.
Parsed(req, recs) ==
    LET parsed == prepare_verify_from_gateway(req.bank_type, req, recs)
    IN  [raised |-> parsed.raised,
         rec |-> parsed.rec,
         reference_number |->
             IF parsed.rec # 0 THEN parsed.recs[parsed.rec].reference_number
             ELSE None,
         preliminary |-> parsed.preliminary]

ParseCallback(req) ==
    /\ probe' = [call |-> "parse", req |-> req,
                 post |-> Parsed(AsPOST(req), bank_records),
                 get |-> Parsed(AsGET(req), bank_records)]
    /\ UNCHANGED <<bank_records, settlement_calls, last_pay, last_callback,
                   deliveries>>

\* Callback requests by their addressing: any bank_type and identifier in
\* the query string, next to either bank's fields.
RouteRequests ==
    {r \in [fmt : BankTypes, method : {"GET", "POST"},
            bank_type : {None} \cup BankTypes, identifier : RoutedIdentifiers,
            code : {None} \cup TrackingCodes, tok : {"TOKEN123"},
            respcode : {None, "0"}, token : BOOLEAN] :
        /\ r.bank_type = None <=> r.identifier = None
        /\ r.fmt = PEC => r.respcode = None /\ ~r.token
        /\ r.fmt = SEPEHR => r.respcode = "0" /\ r.token}

\* callback_view up to the record: the adapter it builds, and the record
\* that adapter's parsing then finds.
RouteCallback(req) ==
    LET resolved == callback_resolve(req, bank_records)
    IN  /\ probe' =
              [call |-> "route", req |-> req, resolved |-> resolved,
               matched |->
                   IF resolved.raised # None THEN 0
                   ELSE prepare_verify_from_gateway(resolved.bank_type, req,
                                                    bank_records).rec]
        /\ UNCHANGED <<bank_records, settlement_calls, last_pay,
                       last_callback, deliveries>>

NextCalls ==
    \/ \E bank_type \in BankTypes, identifier \in RoutedIdentifiers,
          supplied \in {None} \cup TrackingCodes, amount \in OneAmount :
            PreparePay(bank_type, identifier, supplied, amount)
    \/ \E req \in ParseRequests : ParseCallback(req)
    \/ \E req \in RouteRequests : RouteCallback(req)

SpecCalls == Init /\ [][NextCalls]_vars

\* ================================================================ claims
Closed(i) == bank_records[i].status \in Terminal

Forward ==
    {<<INIT, REDIRECT_TO_BANK>>, <<INIT, ERROR>>,
     <<REDIRECT_TO_BANK, CALLBACK_RECEIVED>>,
     <<CALLBACK_RECEIVED, COMPLETE>>, <<CALLBACK_RECEIVED, CANCEL_BY_USER>>,
     <<CALLBACK_RECEIVED, ERROR>>}

\* The statuses one operation takes a record through: an operation that goes
\* on from the callback to the settlement passes CALLBACK_RECEIVED.
Path(from, to) ==
    \/ <<from, to>> \in Forward
    \/ /\ <<from, CALLBACK_RECEIVED>> \in Forward
       /\ <<CALLBACK_RECEIVED, to>> \in Forward

C4_RejectionRaisesRejectPayment ==
    last_pay.rejected =>
        /\ last_pay.raised = BankGatewayRejectPayment
        /\ last_pay.message # None =>
               Contains(last_pay.raised_text, last_pay.message)

\* C5: a callback for a record in REDIRECT_TO_BANK that itself tells a
\* non-success (Sepehr respcode other than "0", no token / digital receipt)
\* is closed as CANCEL_BY_USER or ERROR without a settlement call.
C5_PreliminaryNonSuccessSkipsSettlement ==
    (last_callback.preliminary /\ last_callback.before = REDIRECT_TO_BANK) =>
        /\ ~last_callback.called
        /\ last_callback.after \in {CANCEL_BY_USER, ERROR}

\* C6: a reference number, once set, is never replaced by another value.
C6_ReferenceNumberSetOnce ==
    [][\A i \in RecIds(bank_records) :
          bank_records[i].reference_number # None =>
              bank_records'[i].reference_number =
                  bank_records[i].reference_number]_vars

\* C7: a callback resolved by its OrderId (no bank_type in the query string)
\* resolves only to a record that is in REDIRECT_TO_BANK.
C7_FallbackResolvesRedirectedOnly ==
    last_callback.fallback => last_callback.before = REDIRECT_TO_BANK

\* C8: a callback that matches no record is answered with Http404: the
\* adapter's verification does not run, the bank is not called and no record
\* changes.
C8_UnmatchedCallbackIsNotFound ==
    (last_callback.response # None /\ last_callback.unmatched) =>
        /\ last_callback.response = Http404
        /\ ~last_callback.adapter
        /\ ~last_callback.called
        /\ ~last_callback.changed

\* C9: after a pay the bank rejected, the record is in ERROR, its status text
\* contains the bank's message and it has no reference number.
C9_RejectedPayEndsInError ==
    last_pay.rejected =>
        /\ last_pay.after.status = ERROR
        /\ last_pay.message # None =>
               Contains(last_pay.after.transaction_status_text,
                        last_pay.message)
        /\ last_pay.after.reference_number = None

\* C10: a settlement call that fails at transport level (it raises, times
\* out, cannot connect, or its body is not JSON) makes verify raise
\* BankGatewayConnectionError and leaves the record in ERROR.
C10_TransportFailureEndsInError ==
    (last_callback.called /\ last_callback.transport) =>
        /\ last_callback.raised = BankGatewayConnectionError
        /\ last_callback.after = ERROR

\* C11: when the pay call fails at transport level (timeout, connection
\* error, a response that cannot be decoded), pay raises the connection
\* error, and the record stays in INIT without a reference_number.
C11_TransportFailureRaisesConnectionError ==
    last_pay.transport =>
        /\ last_pay.raised = BankGatewayConnectionError
        /\ last_pay.after.status = INIT
        /\ last_pay.after.reference_number = None

\* C12: callback parsing finds the same tracking code, the same token /
\* receipt and the same preliminary result whether the bank's fields come as
\* a form POST or in the query string of a GET.
C12_ParsingIgnoresEncoding ==
    probe.call = "parse" => probe.get = probe.post

\* C13: no step changes the amount or the currency of a record: not pay,
\* not callback parsing, not verify, whether they succeed or fail.
C13_AmountAndCurrencyAreKept ==
    [][\A i \in RecIds(bank_records) :
          /\ bank_records'[i].amount = bank_records[i].amount
          /\ bank_records'[i].currency = bank_records[i].currency]_vars

\* C13 witness: a record of amount 2500 was paid, called back with a token
\* that was stored, and settled; it still has its amount and currency.
C13_Witness ==
    \E i \in RecIds(bank_records) :
        /\ bank_records[i].status = COMPLETE
        /\ bank_records[i].extra_information = "callback"
        /\ bank_records[i].amount = 2500
        /\ bank_records[i].currency = IRR

C15_ResolvedCallbackIsRedirected ==
    last_callback.adapter => last_callback.response = "redirect"

\* C16: a record becomes COMPLETE only in a settlement call for it that the
\* bank answered with its success status; PEC's answer -138 closes the record
\* as CANCEL_BY_USER, any other non-zero PEC status as ERROR.
C16_CompleteOnlyOnSuccessAnswer ==
    [][/\ \A i \in RecIds(bank_records) :
             (/\ bank_records'[i].status = COMPLETE
              /\ bank_records[i].status # COMPLETE)
                 => /\ last_callback'.called
                    /\ last_callback'.rec = i
                    /\ last_callback'.answered = "success"
       /\ (last_callback'.called /\ last_callback'.answered # "success")
             => last_callback'.after # COMPLETE
       /\ (/\ last_callback'.called
           /\ bank_records[last_callback'.rec].bank_type = PEC)
             => /\ last_callback'.answered = "cancel"
                   => last_callback'.after = CANCEL_BY_USER
                /\ last_callback'.answered = "other"
                   => last_callback'.after = ERROR]_vars

\* C16 witness: Advice was answered with a body that is not JSON, and the
\* Sepehr record was not completed.
C16_Witness ==
    /\ last_callback.called
    /\ last_callback.answered = "transport"
    /\ last_callback.raised = None
    /\ bank_records[last_callback.rec].bank_type = SEPEHR
    /\ last_callback.after = CANCEL_BY_USER

\* bank_choose_identifier or "1"
IdentifierOf(rec) ==
    IF rec.bank_choose_identifier = None THEN "1"
    ELSE rec.bank_choose_identifier

\* C17 as stated: the adapter that handles a callback is the one of the bank
\* type and identifier of the record the callback is matched to.
C17_AdapterIsTheRecordsAdapter ==
    (/\ probe.call = "route"
     /\ probe.resolved.raised = None
     /\ probe.matched # 0)
        => /\ probe.resolved.bank_type = bank_records[probe.matched].bank_type
           /\ probe.resolved.identifier =
                  IdentifierOf(bank_records[probe.matched])

\* C17 amended: the adapter has the bank type of the matched record.  With a
\* bank_type in the query string, the adapter is the one of the query
\* string's bank_type and identifier, whatever the bank's fields are; without,
\* it is the one of the identifier of the PEC record with the request's
\* OrderId ("1" if the record has none), which is the record matched.
C17_AdapterFollowsQueryOrRecord ==
    (probe.call = "route" /\ probe.resolved.raised = None) =>
        /\ probe.matched # 0 =>
              probe.resolved.bank_type = bank_records[probe.matched].bank_type
        /\ probe.req.bank_type # None =>
              /\ probe.resolved.bank_type = probe.req.bank_type
              /\ probe.resolved.identifier = probe.req.identifier
        /\ probe.req.bank_type = None =>
              /\ probe.resolved.bank_record \in RecIds(bank_records)
              /\ probe.matched = probe.resolved.bank_record
              /\ bank_records[probe.matched].tracking_code = probe.req.code
              /\ probe.resolved.identifier =
                     IdentifierOf(bank_records[probe.matched])

\* C17 witness: a callback without bank_type was routed, by its OrderId, to
\* a PEC record of the second configuration.
C17_Witness ==
    /\ probe.call = "route"
    /\ probe.req.bank_type = None
    /\ probe.matched # 0
    /\ bank_records[probe.matched].bank_choose_identifier = "2"
    /\ probe.resolved.identifier = "2"

\* C18: the Amount of the pay request is the record's gateway amount, in the
\* adapter's currency (IRR), not scaled any further.
C18_PayAmountIsGatewayAmount ==
    last_pay.rec # 0 =>
        /\ last_pay.after.currency = IRR
        /\ last_pay.sent.value = Base_get_gateway_amount(last_pay.after)

====
